---- MODULE Spec2Model ----
(***************************************************************************)
(* Build-record repositories of easybuild/tools/repository.py:             *)
(* FileRepository, GitRepository and SvnRepository, their constructor      *)
(* (Repository.__init__: setup_repo, then create_working_copy) and the     *)
(* methods add_easyconfig, get_buildstats, commit and cleanup.             *)
(*                                                                         *)
(* A path is a sequence of path components (strings); the file system is   *)
(* the set of directories `dirs` and the function `files` from the paths   *)
(* of the existing files to their contents.  A record document is the      *)
(* sequence of the statements written to it.                               *)
(*                                                                         *)
(* Every method is an operator from a bundle (handle fields, file system,  *)
(* VCS bookkeeping, the exception in flight, the return value and the      *)
(* trace of the calls made) to the bundle after the method; an action      *)
(* applies one method, whole, to the state.                                *)
(***************************************************************************)
EXTENDS Integers, Sequences, FiniteSets, TLC

VARIABLES
    h,          \* the handle: cls, repo, subdir, wc, client
    dirs,       \* existing directories
    files,      \* existing files: path -> document
    tracked,    \* paths the VCS client has under version control (add)
    tmpCount,   \* number of directories tempfile.mkdtemp has handed out
    lib,        \* whether the optional client package (git / pysvn) imported
    phase,      \* "new", "ready" (constructor returned), "aborted" (it raised)
    call,       \* the last method call: op, arguments, ret, exc, trace
    nCalls,     \* number of method calls made on the constructed handle
    nAdds,      \* number of add_easyconfig calls among them
    setupTmp,   \* the directory GitRepository.setup_repo allocated last
    added,      \* keys (name, version) ever passed to add_easyconfig
    chain,      \* the run of add_easyconfig calls on one key, first one previous=False
    cleaned     \* cleanup has been called on the handle

vars == <<h, dirs, files, tracked, tmpCount, lib, phase, call, nCalls, nAdds,
          setupTmp, added, chain, cleaned>>

(***************************************************************************)
(* Bounds of the model.                                                    *)
(***************************************************************************)
MaxCalls == 3       \* method calls on one handle after construction
MaxAdds == 2        \* add_easyconfig calls among them
MaxTmp == 2         \* directories mkdtemp can hand out

\* the keys (name, version) the calls are drawn from
Keys == {<<"gcc", "4.8">>, <<"gcc", "4.9">>, <<"zlib", "4.8">>}

\* the statistics of the n-th add_easyconfig call: two entries of that
\* build (entries carry the time of the build, so every build's are new)
StatsSet(n) == {<<2 * n + 1, 2 * n + 2>>}
Subdirs == {<<>>, <<"sub">>}
Classes == {"FileRepository", "GitRepository", "SvnRepository"}

NoPath == <<"None">>                      \* self.wc = None
NoClient == [kind |-> "None", dir |-> NoPath]
NoExc == "none"
NoAttr == <<"no attribute">>              \* an attribute no statement has set yet

(***************************************************************************)
(* Paths and the file system (os.path, os.makedirs, tempfile, rmtree).     *)
(***************************************************************************)
Join(a, b) == a \o b

IsPrefix(p, q) == Len(p) <= Len(q) /\ SubSeq(q, 1, Len(p)) = p

isdir(s, p) == p \in s.dirs

isfile(s, p) == p \in DOMAIN s.files

makedirs(s, p) ==
    [s EXCEPT !.dirs = @ \cup {SubSeq(p, 1, i) : i \in 1..Len(p)}]

TmpName(prefix, i) == <<prefix \o ToString(i)>>

mkdtemp(s, prefix) ==
    LET d == TmpName(prefix, s.tmpCount + 1)
    IN  [s EXCEPT !.dirs = @ \cup {d}, !.tmpCount = @ + 1, !.trace = Append(@, "mkdtemp")]

\* the client's bookkeeping (.git, .svn) lies in the tree and goes with it
RemoveTree(s, p) ==
    [s EXCEPT !.dirs = {d \in @ : ~IsPrefix(p, d)},
              !.files = [q \in {f \in DOMAIN @ : ~IsPrefix(p, f)} |-> @[q]],
              !.tracked = {q \in @ : ~IsPrefix(p, q)}]

(***************************************************************************)
(* The logger of easybuild.tools.build_log: debug and warning report and   *)
(* return (debug is kept in the trace only where a claim reads it);        *)
(* error and exception report and raise EasyBuildError to the caller.      *)
(***************************************************************************)
log_debug(s, msg) == [s EXCEPT !.trace = Append(@, msg)]

log_warning(s) == [s EXCEPT !.trace = Append(@, "log.warning")]

log_error(s) == [s EXCEPT !.trace = Append(@, "log.error"), !.exc = "EasyBuildError"]

log_exception(s) == [s EXCEPT !.trace = Append(@, "log.exception"), !.exc = "EasyBuildError"]

Raise(s, e) == [s EXCEPT !.exc = e]

Event(s, e) == [s EXCEPT !.trace = Append(@, e)]

(***************************************************************************)
(* Record documents.                                                       *)
(***************************************************************************)
Header == [kind |-> "comment", entries |-> <<>>]     \* "# Built with ... on ..."
Other == [kind |-> "other", entries |-> <<>>]        \* a configuration line

\* stats_to_str: the text of the entries, one literal per entry, in order
stats_to_str(stats) == [i \in 1..Len(stats) |-> [lit |-> stats[i]]]

\* variant: the fresh list literal is written whatever previous is
StatsBlock_alwaysFresh(stats, previous) ==
    [kind |-> "assign", entries |-> stats_to_str(stats)]

\* variant: the append expression is written whatever previous is
StatsBlock_alwaysAppend(stats, previous) ==
    [kind |-> "append", entries |-> stats_to_str(stats)]

\* statsprefix + stats_to_str(stats) + statssuffix
StatsBlock(stats, previous) ==
    IF ~previous
    THEN [kind |-> "assign", entries |-> stats_to_str(stats)]
    ELSE [kind |-> "append", entries |-> stats_to_str(stats)]

ParseEntries(lits) == [i \in 1..Len(lits) |-> lits[i].lit]

\* EasyConfig(dest, validate=False)['buildstats']: the document is executed
\* statement by statement; buildstats.append before a definition of
\* buildstats is a NameError and the document does not parse.
RECURSIVE EvalFrom(_, _, _)
EvalFrom(doc, i, acc) ==
    IF i > Len(doc) THEN acc
    ELSE LET st == doc[i]
         IN  IF st.kind = "assign"
             THEN EvalFrom(doc, i + 1, [status |-> "list", val |-> ParseEntries(st.entries)])
             ELSE IF st.kind = "append"
             THEN IF acc.status = "list"
                  THEN EvalFrom(doc, i + 1,
                                [status |-> "list", val |-> acc.val \o ParseEntries(st.entries)])
                  ELSE [status |-> "error", val |-> <<>>]
             ELSE EvalFrom(doc, i + 1, acc)

EasyConfig_buildstats(doc) == EvalFrom(doc, 1, [status |-> "unset", val |-> <<>>])

RetNone == [kind |-> "None", path |-> <<>>, val |-> <<>>]
RetPath(p) == [kind |-> "path", path |-> p, val |-> <<>>]
RetList(v) == [kind |-> "list", path |-> <<>>, val |-> v]
RetUnset == [kind |-> "unset", path |-> <<>>, val |-> <<>>]

(***************************************************************************)
(* FileRepository                                                          *)
(***************************************************************************)
FileRepository_setup_repo(s) ==
    LET s0 == Event(s, "setup_repo")
        s1 == IF ~isdir(s0, s0.h.repo) THEN makedirs(s0, s0.h.repo) ELSE s0
        full_path == Join(s1.h.repo, s1.h.subdir)
    IN  IF ~isdir(s1, full_path) THEN makedirs(s1, full_path) ELSE s1

FileRepository_create_working_copy(s) ==
    [Event(s, "create_working_copy") EXCEPT !.h.wc = s.h.repo]

RecordDir(s, name) == Join(Join(s.h.wc, s.h.subdir), <<name>>)

RecordPath(s, name, version) == Join(RecordDir(s, name), <<version \o ".eb">>)

\* for line in open(cfg): the configuration file is read after dest was
\* opened for writing, so cfg = dest reads the truncated file
ReadCfg(src, fls) == IF src.kind = "path" THEN fls[src.path] ELSE src.content

\* variant: the record written is the only file left
FileRepository_add_easyconfig_keepsOnlyDest(s, src, name, version, stats, previous, io) ==
    LET full_path == RecordDir(s, name)
        s1 == IF ~isdir(s, full_path) THEN makedirs(s, full_path) ELSE s
        dest == Join(full_path, <<version \o ".eb">>)
        opened == [p \in {dest} |-> <<>>]
        cfg == IF src.kind = "path" THEN <<>> ELSE src.content
        doc == <<Header>> \o cfg \o <<StatsBlock(stats, previous)>>
        put(d) == [s1 EXCEPT !.files = [opened EXCEPT ![dest] = d]]
    IN  IF io = "open_dest" THEN log_exception(s1)
        ELSE IF io = "read_cfg" THEN log_exception(put(<<Header>>))
        ELSE IF io = "write" THEN log_exception(put(SubSeq(doc, 1, Len(doc) - 1)))
        ELSE [put(doc) EXCEPT !.ret = RetPath(dest)]

\* io: where an IOError strikes: "ok", "open_dest" (dest is left as it was),
\* "read_cfg" (the header was written), "write" (the statistics block was not)
FileRepository_add_easyconfig(s, src, name, version, stats, previous, io) ==
    LET full_path == RecordDir(s, name)
        s1 == IF ~isdir(s, full_path) THEN makedirs(s, full_path) ELSE s
        dest == Join(full_path, <<version \o ".eb">>)
        opened == [p \in DOMAIN s1.files \cup {dest} |->
                      IF p = dest THEN <<>> ELSE s1.files[p]]
        doc == <<Header>> \o ReadCfg(src, opened) \o <<StatsBlock(stats, previous)>>
        put(d) == [s1 EXCEPT !.files = [opened EXCEPT ![dest] = d]]
    IN  IF io = "open_dest" THEN log_exception(s1)
        ELSE IF io = "read_cfg" THEN log_exception(put(<<Header>>))
        ELSE IF io = "write" THEN log_exception(put(SubSeq(doc, 1, Len(doc) - 1)))
        ELSE [put(doc) EXCEPT !.ret = RetPath(dest)]

\* variant: a missing version file is reported as an error
FileRepository_get_buildstats_missIsError(s, name, version) ==
    LET full_path == RecordDir(s, name)
        dest == Join(full_path, <<version \o ".eb">>)
    IN  IF ~isdir(s, full_path) THEN [s EXCEPT !.ret = RetList(<<>>)]
        ELSE IF ~isfile(s, dest) THEN Raise(s, "EasyBuildError")
        ELSE LET eb == EasyConfig_buildstats(s.files[dest])
             IN  IF eb.status = "error" THEN Raise(s, "EasyBuildError")
                 ELSE IF eb.status = "unset" THEN [s EXCEPT !.ret = RetUnset]
                 ELSE [s EXCEPT !.ret = RetList(eb.val)]

FileRepository_get_buildstats(s, name, version) ==
    LET full_path == RecordDir(s, name)
        dest == Join(full_path, <<version \o ".eb">>)
    IN  IF ~isdir(s, full_path) THEN [s EXCEPT !.ret = RetList(<<>>)]
        ELSE IF ~isfile(s, dest) THEN [s EXCEPT !.ret = RetList(<<>>)]
        ELSE LET eb == EasyConfig_buildstats(s.files[dest])
             IN  IF eb.status = "error" THEN Raise(s, "EasyBuildError")
                 ELSE IF eb.status = "unset" THEN [s EXCEPT !.ret = RetUnset]
                 ELSE [s EXCEPT !.ret = RetList(eb.val)]

Repository_commit(s) == s

\* the values commit reads from its environment and its caller:
\* socket.gethostname(), time.strftime(...), getpass.getuser(), msg
\* ("%s" % None is "None" when msg is left out)
Hosts == {"node1", "node2"}
Times == {"2012-11-02_10-00-00"}
Users == {"eb"}
Msgs == {"None", "add gcc 4.8"}

\* variant: the acting user is left out of the message
completemsg_noUser(host, time, user, msg) ==
    "EasyBuild-commit from " \o host \o " (time: " \o time \o ") \n" \o msg

\* "EasyBuild-commit from %s (time: %s, user: %s) \n%s" % (host, time, user, msg)
completemsg(host, time, user, msg) ==
    "EasyBuild-commit from " \o host \o " (time: " \o time \o ", user: " \o user
        \o ") \n" \o msg

\* variant: the base cleanup removes the working copy
Repository_cleanup_removesWc(s) == RemoveTree(s, s.h.wc)

Repository_cleanup(s) == s

(***************************************************************************)
(* GitRepository.  A git command runs in the client's working directory:   *)
(* it ends "ok" or with GitCommandError as the environment decides, and    *)
(* with OSError when that directory does not exist.                        *)
(***************************************************************************)
GitOutcomes == {"ok", "GitCommandError"}

GitResult(s, dir, out) == IF isdir(s, dir) THEN out ELSE "OSError"

\* variant: the temporary directory is allocated before the client check
GitRepository_setup_repo_allocatesFirst(s) ==
    LET s0 == Event(s, "setup_repo")
        s1 == mkdtemp(s0, "git-wc-")
        s2 == [s1 EXCEPT !.h.wc = TmpName("git-wc-", s1.tmpCount)]
    IN  IF ~s2.lib THEN log_exception(s2) ELSE s2

GitRepository_setup_repo(s) ==
    LET s0 == Event(s, "setup_repo")
    IN  IF ~s0.lib THEN log_exception(s0)
        ELSE LET s1 == mkdtemp(s0, "git-wc-")
             IN  [s1 EXCEPT !.h.wc = TmpName("git-wc-", s1.tmpCount)]

\* out = 'Cloning into easybuild...': the last word of the first line,
\* stripped of dots and quotes
CloneOutput == << << [text |-> "Cloning", dots |-> FALSE],
                     [text |-> "into", dots |-> FALSE],
                     [text |-> "easybuild", dots |-> TRUE] >> >>

RepoNameOf(out) == LET words == out[1] IN words[Len(words)].text

GitRepository_create_working_copy(s, clone, connect, pull) ==
    LET s0 == Event(s, "create_working_copy")
        r1 == GitResult(s0, s0.h.wc, clone)
        s1 == Event(s0, "clone")
        reponame == IF r1 = "ok" THEN RepoNameOf(CloneOutput) ELSE "UNKNOWN"
        s2 == IF r1 = "ok" THEN makedirs(s1, Join(s1.h.wc, <<reponame>>))
              ELSE IF r1 = "GitCommandError" THEN log_warning(s1)
              ELSE Raise(s1, r1)
        s3 == [s2 EXCEPT !.h.wc = Join(s2.h.wc, <<reponame>>)]
        s4 == IF connect = "ok"
              THEN [s3 EXCEPT !.h.client = [kind |-> "git", dir |-> s3.h.wc]]
              ELSE log_error(s3)
        r5 == GitResult(s4, s4.h.client.dir, pull)
        s5 == Event(s4, "pull")
    IN  IF s2.exc # NoExc THEN s2
        ELSE IF s4.exc # NoExc THEN s4
        ELSE IF r5 = "ok" THEN s5 ELSE log_exception(s5)

\* variant: the destination path is handed on to the caller
GitRepository_add_easyconfig_returnsDest(s, src, name, version, stats, append, io, out) ==
    LET s1 == FileRepository_add_easyconfig(s, src, name, version, stats, append, io)
        dest == s1.ret.path
        r == GitResult(s1, s1.h.client.dir, out)
        s2 == Event(s1, "add")
    IN  IF s1.exc # NoExc THEN s1
        ELSE IF r = "ok" THEN [s2 EXCEPT !.tracked = @ \cup {dest}]
        ELSE IF r = "GitCommandError" THEN log_warning(s2)
        ELSE Raise(s2, r)

GitRepository_add_easyconfig(s, src, name, version, stats, append, io, out) ==
    LET s1 == FileRepository_add_easyconfig(s, src, name, version, stats, append, io)
        dest == s1.ret.path
        r == GitResult(s1, s1.h.client.dir, out)
        s2 == [Event(s1, "add") EXCEPT !.ret = RetNone]
    IN  IF s1.exc # NoExc THEN s1
        ELSE IF r = "ok" THEN [s2 EXCEPT !.tracked = @ \cup {dest}]
        ELSE IF r = "GitCommandError" THEN log_warning(s2)
        ELSE Raise(s2, r)

\* self.client.commit('-am "%s"' % completemsg)
GitRepository_commit(s, host, time, user, msg, statusOut, commitOut, pushOut) ==
    LET dir == s.h.client.dir
        r1 == GitResult(s, dir, statusOut)
        s1 == Event(s, "status")
        r2 == GitResult(s1, dir, commitOut)
        s2 == [Event(s1, "commit") EXCEPT
                  !.sent = "-am \"" \o completemsg(host, time, user, msg) \o "\""]
        s3 == IF r2 = "ok" THEN s2
              ELSE IF r2 = "GitCommandError" THEN log_warning(s2)
              ELSE Raise(s2, r2)
        r4 == GitResult(s3, dir, pushOut)
        s4 == Event(s3, "push")
    IN  IF r1 # "ok" THEN Raise(s1, r1)
        ELSE IF s3.exc # NoExc THEN s3
        ELSE IF r4 = "ok" THEN s4
        ELSE IF r4 = "GitCommandError" THEN log_warning(s4)
        ELSE Raise(s4, r4)

\* rmtree2(path): removes the tree; OSError when the path does not exist
\* or cannot be removed, as the environment decides
RmOutcomes == {"ok", "OSError", "IOError"}

rmtree2(s, p, rm) ==
    LET r == IF isdir(s, p) THEN rm ELSE "OSError"
        s1 == Event(s, "rmtree2")
    IN  IF r = "ok" THEN RemoveTree(s1, p) ELSE Raise(s1, r)

GitRepository_cleanup(s, rm) ==
    LET s1 == rmtree2(s, s.h.wc, rm)
    IN  IF s1.exc = "IOError" THEN log_exception(s1) ELSE s1

(***************************************************************************)
(* SvnRepository                                                           *)
(***************************************************************************)
\* lines 328-340: the client session and the check of the target url
SvnRepository_connect(s, mk, url) ==
    LET s0 == Event(s, "pysvn.Client")
        s1 == IF mk = "ok"
              THEN [s0 EXCEPT !.h.client = [kind |-> "svn", dir |-> NoPath]]
              ELSE log_exception(s0)
        s2 == Event(s1, "is_url")
    IN  IF s1.exc # NoExc THEN s1
        ELSE IF url = "invalid" THEN log_error(s2)
        ELSE IF url = "ClientError" THEN log_exception(s2)
        ELSE s2

\* line 323 raises pysvn.ClientError, which "except NameError" does not
\* catch; without pysvn the NameError is caught and log.exception raises
SvnRepository_setup_repo(s, mk, url) ==
    LET s0 == Event(s, "setup_repo")
        s1 == [s0 EXCEPT !.h.repo = Join(s0.h.repo, s0.h.subdir)]
        s2 == IF s1.lib THEN Raise(s1, "ClientError") ELSE log_exception(s1)
    IN  IF s2.exc # NoExc THEN s2 ELSE SvnRepository_connect(s2, mk, url)

Sentinel == -1

UpdateResults == {[exc |-> TRUE, res |-> <<>>],
                  [exc |-> FALSE, res |-> <<>>],
                  [exc |-> FALSE, res |-> <<[number |-> Sentinel]>>],
                  [exc |-> FALSE, res |-> <<[number |-> 7]>>]}

\* log.debug("Updated to revision %s in %s" % (res, self.wc)), line 357
UpdatedTo(res) ==
    IF Len(res) = 0 THEN "Updated to revision []"
    ELSE "Updated to revision [" \o ToString(res[1].number) \o "]"

\* client.checkout(self.repo, self.wc): the working copy gets its
\* administrative area and is under version control
checkout(s) ==
    LET s1 == makedirs(Event(s, "checkout"), Join(s.h.wc, <<".svn">>))
    IN  [s1 EXCEPT !.tracked = @ \cup {s1.h.wc}]

\* variant: the checkout is made whatever revision the update reports
SvnRepository_create_working_copy_alwaysCheckout(s, info, upd, co) ==
    LET s0 == Event(s, "create_working_copy")
        s1 == mkdtemp(s0, "svn-wc-")
        s2 == [s1 EXCEPT !.h.wc = TmpName("svn-wc-", s1.tmpCount)]
        s3 == Event(s2, "info2")
        s3x == IF info # "ok" THEN log_exception(s3) ELSE s3
        s4 == Event(s3x, "update")
        s4x == log_exception(s4)
        s5 == log_debug(s4, UpdatedTo(upd.res))
        s5x == log_error(s5)
    IN  IF s3x.exc # NoExc THEN s3x
        ELSE IF upd.exc
             THEN IF s4x.exc # NoExc THEN s4x ELSE Raise(s4x, "UnboundLocalError")
        ELSE IF Len(upd.res) = 0
             THEN IF s5x.exc # NoExc THEN s5x ELSE Raise(s5x, "IndexError")
        ELSE IF TRUE
             THEN IF co = "ok" THEN checkout(s5)
                  ELSE log_exception(Event(s5, "checkout"))
        ELSE s5

\* variant: a failing info2 is reported as a warning and the update goes on
SvnRepository_create_working_copy_infoWarns(s, info, upd, co) ==
    LET s0 == Event(s, "create_working_copy")
        s1 == mkdtemp(s0, "svn-wc-")
        s2 == [s1 EXCEPT !.h.wc = TmpName("svn-wc-", s1.tmpCount)]
        s3 == Event(s2, "info2")
        s3x == IF info # "ok" THEN log_warning(s3) ELSE s3
        s4 == Event(s3x, "update")
        s4x == log_exception(s4)
        s5 == log_debug(s4, UpdatedTo(upd.res))
        s5x == log_error(s5)
    IN  IF s3x.exc # NoExc THEN s3x
        ELSE IF upd.exc
             THEN IF s4x.exc # NoExc THEN s4x ELSE Raise(s4x, "UnboundLocalError")
        ELSE IF Len(upd.res) = 0
             THEN IF s5x.exc # NoExc THEN s5x ELSE Raise(s5x, "IndexError")
        ELSE IF upd.res[1].number = Sentinel
             THEN IF co = "ok" THEN checkout(s5)
                  ELSE log_exception(Event(s5, "checkout"))
        ELSE s5

\* after a handler that returns, "res" of line 361 is unbound when the
\* update raised, and res[0] of line 364 is an IndexError on an empty list
SvnRepository_create_working_copy(s, info, upd, co) ==
    LET s0 == Event(s, "create_working_copy")
        s1 == mkdtemp(s0, "svn-wc-")
        s2 == [s1 EXCEPT !.h.wc = TmpName("svn-wc-", s1.tmpCount)]
        s3 == Event(s2, "info2")
        s3x == IF info # "ok" THEN log_exception(s3) ELSE s3
        s4 == Event(s3x, "update")
        s4x == log_exception(s4)
        s5 == log_debug(s4, UpdatedTo(upd.res))
        s5x == log_error(s5)
    IN  IF s3x.exc # NoExc THEN s3x
        ELSE IF upd.exc
             THEN IF s4x.exc # NoExc THEN s4x ELSE Raise(s4x, "UnboundLocalError")
        ELSE IF Len(upd.res) = 0
             THEN IF s5x.exc # NoExc THEN s5x ELSE Raise(s5x, "IndexError")
        ELSE IF upd.res[1].number = Sentinel
             THEN IF co = "ok" THEN checkout(s5)
                  ELSE log_exception(Event(s5, "checkout"))
        ELSE s5

\* variant: the path is added whether it is versioned or not
SvnRepository_add_easyconfig_alwaysAdds(s, src, name, version, stats, append, io, st, out) ==
    LET s1 == FileRepository_add_easyconfig(s, src, name, version, stats, append, io)
        dest == s1.ret.path
        s2 == [Event(s1, "status") EXCEPT !.ret = RetNone]
        s2b == Event(s2, "status")
        is_versioned == dest \in s2b.tracked
        s3 == Event(s2b, "add")
    IN  IF s1.exc # NoExc THEN s1
        ELSE IF st # "ok" THEN Raise(s2, "ClientError")
        ELSE IF s2b.h.client.kind # "None"
             THEN IF out = "ok" THEN [s3 EXCEPT !.tracked = @ \cup {dest}]
                  ELSE Raise(s3, "ClientError")
        ELSE s2b

\* status(dest) is asked twice (lines 380 and 382);
\* status(dest)[0].is_versioned holds for a path that was added
SvnRepository_add_easyconfig(s, src, name, version, stats, append, io, st, out) ==
    LET s1 == FileRepository_add_easyconfig(s, src, name, version, stats, append, io)
        dest == s1.ret.path
        s2 == [Event(s1, "status") EXCEPT !.ret = RetNone]
        s2b == Event(s2, "status")
        is_versioned == dest \in s2b.tracked
        s3 == Event(s2b, "add")
    IN  IF s1.exc # NoExc THEN s1
        ELSE IF st # "ok" THEN Raise(s2, "ClientError")
        ELSE IF s2b.h.client.kind # "None" /\ ~is_versioned
             THEN IF out = "ok" THEN [s3 EXCEPT !.tracked = @ \cup {dest}]
                  ELSE Raise(s3, "ClientError")
        ELSE s2b

\* self.client.checkin(self.wc, completemsg, recurse=True)
SvnRepository_commit(s, host, time, user, msg, ci) ==
    LET s1 == [Event(s, "checkin") EXCEPT !.sent = completemsg(host, time, user, msg)]
    IN  IF ci = "ok" THEN s1 ELSE log_exception(s1)

SvnRepository_cleanup(s, rm) ==
    LET s1 == rmtree2(s, s.h.wc, rm)
    IN  IF s1.exc = "OSError" THEN log_exception(s1) ELSE s1

(***************************************************************************)
(* Repository.__init__ and the constructors of the three classes.          *)
(***************************************************************************)
\* variant: self.wc is left unset
Repository_init_fields_noWc(s, repo_path, subdir) ==
    [s EXCEPT !.h.subdir = subdir, !.h.repo = repo_path]

Repository_init_fields(s, repo_path, subdir) ==
    [s EXCEPT !.h.subdir = subdir, !.h.repo = repo_path, !.h.wc = NoPath]

FileRepository_init(s, repo_path, subdir) ==
    LET s1 == FileRepository_setup_repo(Repository_init_fields(s, repo_path, subdir))
    IN  IF s1.exc # NoExc THEN s1 ELSE FileRepository_create_working_copy(s1)

GitRepository_init(s, repo_path, subdir, clone, connect, pull) ==
    LET s0 == [s EXCEPT !.h.client = NoClient]
        s1 == GitRepository_setup_repo(Repository_init_fields(s0, repo_path, subdir))
    IN  IF s1.exc # NoExc THEN s1
        ELSE GitRepository_create_working_copy(s1, clone, connect, pull)

SvnRepository_init(s, repo_path, subdir, mk, url, info, upd, co) ==
    LET s0 == [s EXCEPT !.h.client = NoClient]
        s1 == SvnRepository_setup_repo(Repository_init_fields(s0, repo_path, subdir), mk, url)
    IN  IF s1.exc # NoExc THEN s1
        ELSE SvnRepository_create_working_copy(s1, info, upd, co)

\* the constructor from line 328 on: the rest of setup_repo, then
\* create_working_copy
SvnRepository_init_after_raise(s, mk, url, info, upd, co) ==
    LET s1 == SvnRepository_connect(s, mk, url)
    IN  IF s1.exc # NoExc THEN s1
        ELSE SvnRepository_create_working_copy(s1, info, upd, co)

(***************************************************************************)
(* State machine.                                                          *)
(***************************************************************************)
RepoPath == <<"repo">>

NoSrc == [kind |-> "none", path |-> <<>>, content |-> <<>>]
NoChain == [live |-> FALSE, key |-> <<>>, entries |-> <<>>, n |-> 0, carried |-> FALSE]
NoCall == [op |-> "none", name |-> "", version |-> "", stats |-> <<>>,
           previous |-> FALSE, src |-> NoSrc, dest |-> <<>>,
           ret |-> RetNone, exc |-> NoExc, trace |-> <<>>,
           host |-> "", time |-> "", user |-> "", msg |-> "", sent |-> ""]

Bundle ==
    [h |-> h, dirs |-> dirs, files |-> files, tracked |-> tracked,
     tmpCount |-> tmpCount, lib |-> lib, trace |-> <<>>, exc |-> NoExc, ret |-> RetNone,
     sent |-> ""]

Install(s) ==
    /\ h' = s.h
    /\ dirs' = s.dirs
    /\ files' = s.files
    /\ tracked' = s.tracked
    /\ tmpCount' = s.tmpCount

Outcome(op, s) ==
    [NoCall EXCEPT !.op = op, !.ret = IF s.exc = NoExc THEN s.ret ELSE RetNone,
                   !.exc = s.exc, !.trace = s.trace, !.sent = s.sent]

Init ==
    /\ h \in {[cls |-> c, repo |-> NoAttr, subdir |-> NoAttr, wc |-> NoAttr,
               client |-> [kind |-> "no attribute", dir |-> NoAttr]] : c \in Classes}
    /\ dirs \in (IF h.cls = "FileRepository" THEN {{}, {RepoPath}} ELSE {{}})
    /\ files = << >>
    /\ tracked = {}
    /\ tmpCount = 0
    /\ lib \in (IF h.cls = "FileRepository" THEN {TRUE} ELSE BOOLEAN)
    /\ phase = "new"
    /\ call = NoCall
    /\ nCalls = 0
    /\ nAdds = 0
    /\ setupTmp = NoPath
    /\ added = {}
    /\ chain = NoChain
    /\ cleaned = FALSE

Constructed(s) ==
    /\ Install(s)
    /\ phase' = IF s.exc = NoExc THEN "ready" ELSE "aborted"
    /\ call' = Outcome("__init__", s)
    /\ UNCHANGED <<lib, nCalls, nAdds, added, chain, cleaned>>

ConstructFile ==
    /\ phase = "new"
    /\ h.cls = "FileRepository"
    /\ \E subdir \in Subdirs :
          /\ Constructed(FileRepository_init(Bundle, RepoPath, subdir))
          /\ setupTmp' = NoPath

ConstructGit ==
    /\ phase = "new"
    /\ h.cls = "GitRepository"
    /\ tmpCount < MaxTmp
    /\ \E subdir \in Subdirs, clone \in GitOutcomes, connect \in {"ok", "OSError"},
          pull \in GitOutcomes :
          LET s == GitRepository_init(Bundle, RepoPath, subdir, clone, connect, pull)
          IN  /\ Constructed(s)
              /\ setupTmp' = IF "mkdtemp" \in {s.trace[i] : i \in 1..Len(s.trace)}
                             THEN TmpName("git-wc-", s.tmpCount) ELSE NoPath

ConstructSvn ==
    /\ phase = "new"
    /\ h.cls = "SvnRepository"
    /\ tmpCount < MaxTmp
    /\ \E subdir \in Subdirs, mk \in {"ok", "ClientError"},
          url \in {"valid", "invalid", "ClientError"}, info \in {"ok", "ClientError"},
          upd \in UpdateResults, co \in {"ok", "ClientError"} :
          /\ Constructed(SvnRepository_init(Bundle, RepoPath, subdir, mk, url, info, upd, co))
          /\ setupTmp' = NoPath

Ready == phase = "ready" /\ nCalls < MaxCalls

\* the configuration files add_easyconfig may be given: a plain one, a copy
\* of the record as it stands, or the destination file itself (kind "path");
\* content is what the file holds when the call is made
Sources(dest) ==
    {[kind |-> "ext", path |-> <<>>, content |-> <<Other>>]}
        \cup {[kind |-> "ext", path |-> <<>>, content |-> files[p]] : p \in DOMAIN files \cap {dest}}
        \cup {[kind |-> "path", path |-> dest,
                content |-> IF dest \in DOMAIN files THEN files[dest] ELSE <<>>]}

IOCases == {"ok", "open_dest", "read_cfg", "write"}

VcsOutcomes(cls) ==
    IF cls = "FileRepository" THEN {"ok"}
    ELSE IF cls = "GitRepository" THEN GitOutcomes
    ELSE {"ok", "ClientError"}

add_easyconfig(s, src, name, version, stats, previous, io, st, out) ==
    IF s.h.cls = "FileRepository"
    THEN FileRepository_add_easyconfig(s, src, name, version, stats, previous, io)
    ELSE IF s.h.cls = "GitRepository"
    THEN GitRepository_add_easyconfig(s, src, name, version, stats, previous, io, out)
    ELSE SvnRepository_add_easyconfig(s, src, name, version, stats, previous, io, st, out)

AddEasyconfig ==
    /\ Ready
    /\ nAdds < MaxAdds
    /\ \E key \in Keys, stats \in StatsSet(nAdds), previous \in BOOLEAN :
       \E src \in Sources(RecordPath(Bundle, key[1], key[2])), io \in IOCases :
       \E out \in (IF io = "ok" THEN VcsOutcomes(h.cls) ELSE {"ok"}),
          st \in (IF io = "ok" /\ h.cls = "SvnRepository" THEN {"ok", "ClientError"}
                  ELSE {"ok"}) :
          LET name == key[1]
              version == key[2]
              s == add_easyconfig(Bundle, src, name, version, stats, previous, io, st, out)
          IN  /\ Install(s)
              /\ call' = [Outcome("add_easyconfig", s) EXCEPT
                             !.name = name, !.version = version, !.stats = stats,
                             !.previous = previous, !.src = src,
                             !.dest = RecordPath(Bundle, name, version)]
              /\ added' = added \cup {key}
              /\ chain' = IF s.exc # NoExc THEN NoChain
                          ELSE IF ~previous
                          THEN [live |-> TRUE, key |-> key, entries |-> stats, n |-> 1,
                                carried |-> TRUE]
                          ELSE IF chain.live /\ chain.key = key
                          THEN [chain EXCEPT
                                   !.entries = @ \o stats, !.n = @ + 1,
                                   !.carried = @ /\ src.kind = "ext"
                                       /\ EasyConfig_buildstats(src.content)
                                            = [status |-> "list", val |-> chain.entries]]
                          ELSE chain
              /\ nCalls' = nCalls + 1
              /\ nAdds' = nAdds + 1
              /\ UNCHANGED <<lib, phase, setupTmp, cleaned>>

GetBuildstats ==
    /\ Ready
    /\ \E key \in Keys :
          LET name == key[1]
              version == key[2]
              s == FileRepository_get_buildstats(Bundle, name, version)
          IN  /\ Install(s)
              /\ call' = [Outcome("get_buildstats", s) EXCEPT
                             !.name = name, !.version = version,
                             !.dest = RecordPath(Bundle, name, version)]
              /\ nCalls' = nCalls + 1
              /\ UNCHANGED <<lib, phase, nAdds, setupTmp, added, chain, cleaned>>

commit(s, host, time, user, msg, o1, o2, o3) ==
    IF s.h.cls = "FileRepository" THEN Repository_commit(s)
    ELSE IF s.h.cls = "GitRepository"
    THEN GitRepository_commit(s, host, time, user, msg, o1, o2, o3)
    ELSE SvnRepository_commit(s, host, time, user, msg, o1)

Commit ==
    /\ Ready
    /\ \E host \in Hosts, time \in Times, user \in Users, msg \in Msgs,
          o1 \in VcsOutcomes(h.cls),
          o2, o3 \in (IF h.cls = "GitRepository" THEN GitOutcomes ELSE {"ok"}) :
          LET s == commit(Bundle, host, time, user, msg, o1, o2, o3)
          IN  /\ Install(s)
              /\ call' = [Outcome("commit", s) EXCEPT
                             !.host = host, !.time = time, !.user = user, !.msg = msg]
              /\ nCalls' = nCalls + 1
              /\ UNCHANGED <<lib, phase, nAdds, setupTmp, added, chain, cleaned>>

cleanup(s, rm) ==
    IF s.h.cls = "FileRepository" THEN Repository_cleanup(s)
    ELSE IF s.h.cls = "GitRepository" THEN GitRepository_cleanup(s, rm)
    ELSE SvnRepository_cleanup(s, rm)

Cleanup ==
    /\ Ready
    /\ \E rm \in (IF h.cls = "FileRepository" THEN {"ok"} ELSE RmOutcomes) :
          LET s == cleanup(Bundle, rm)
          IN  /\ Install(s)
              /\ call' = Outcome("cleanup", s)
              /\ nCalls' = nCalls + 1
              /\ cleaned' = TRUE
              /\ chain' = NoChain
              /\ UNCHANGED <<lib, phase, nAdds, setupTmp, added>>

setup_repo(s) ==
    IF s.h.cls = "FileRepository" THEN FileRepository_setup_repo(s)
    ELSE IF s.h.cls = "GitRepository" THEN GitRepository_setup_repo(s)
    ELSE SvnRepository_setup_repo(s, "ok", "valid")

\* setup_repo called again on the constructed handle
SetupAgain ==
    /\ Ready
    /\ h.cls = "FileRepository" \/ tmpCount < MaxTmp
    /\ LET s == setup_repo(Bundle)
       IN  /\ Install(s)
           /\ call' = Outcome("setup_repo", s)
           /\ nCalls' = nCalls + 1
           /\ setupTmp' = IF h.cls = "GitRepository" /\ s.exc = NoExc THEN s.h.wc ELSE setupTmp
           /\ chain' = NoChain
           /\ UNCHANGED <<lib, phase, nAdds, added, cleaned>>

Next ==
    \/ ConstructFile
    \/ ConstructGit
    \/ ConstructSvn
    \/ AddEasyconfig
    \/ GetBuildstats
    \/ Commit
    \/ Cleanup
    \/ SetupAgain

Spec == Init /\ [][Next]_vars

(***************************************************************************)
(* No behaviour of Spec constructs an SvnRepository: setup_repo raises at  *)
(* line 323 in every environment.  SpecMethods also starts SvnRepository   *)
(* handles in the state the constructor has when it reaches line 323       *)
(* (fields initialised, target resolved at line 321) and runs the rest of  *)
(* the constructor from line 328 on: the client session, the check of the  *)
(* url, then create_working_copy; the other methods of the class run on    *)
(* the handles it returns.                                                 *)
(***************************************************************************)
InitSvnHandle ==
    /\ h \in {[cls |-> "SvnRepository", repo |-> Join(RepoPath, subdir),
               subdir |-> subdir, wc |-> NoPath, client |-> NoClient] : subdir \in Subdirs}
    /\ dirs = {}
    /\ files = << >>
    /\ tracked = {}
    /\ tmpCount = 0
    /\ lib = TRUE
    /\ phase = "setup_line_323"
    /\ call = NoCall
    /\ nCalls = 0
    /\ nAdds = 0
    /\ setupTmp = NoPath
    /\ added = {}
    /\ chain = NoChain
    /\ cleaned = FALSE

SvnAcquire ==
    /\ phase = "setup_line_323"
    /\ tmpCount < MaxTmp
    /\ \E mk \in {"ok", "ClientError"}, url \in {"valid", "invalid", "ClientError"},
          info \in {"ok", "ClientError"}, upd \in UpdateResults, co \in {"ok", "ClientError"} :
          /\ Constructed(SvnRepository_init_after_raise(Bundle, mk, url, info, upd, co))
          /\ setupTmp' = NoPath

InitMethods == Init \/ InitSvnHandle

NextMethods == Next \/ SvnAcquire

SpecMethods == InitMethods /\ [][NextMethods]_vars

(***************************************************************************)
(* Claims.                                                                 *)
(***************************************************************************)
AddReturned == call.op = "add_easyconfig" /\ call.exc = NoExc

GetStats(key) == FileRepository_get_buildstats(Bundle, key[1], key[2])

Returns(r, entries) == r.exc = NoExc /\ r.ret = RetList(entries)

C2_FreshWriteReadsBack ==
    (AddReturned /\ ~call.previous)
        => Returns(GetStats(<<call.name, call.version>>), call.stats)

\* C2 amended: the same, for a source content that itself evaluates without
\* error (no buildstats.append before buildstats is defined).
C2_FreshWriteReadsBackParseableSource ==
    (AddReturned /\ ~call.previous
       /\ EasyConfig_buildstats(call.src.content).status # "error")
        => Returns(GetStats(<<call.name, call.version>>), call.stats)

C2_Witness ==
    /\ AddReturned /\ ~call.previous
    /\ call.src.kind = "ext" /\ Len(call.src.content) > 1
    /\ EasyConfig_buildstats(call.src.content).status = "list"
    /\ EasyConfig_buildstats(call.src.content).val # call.stats
    /\ Len(call.stats) = 2
    /\ Returns(GetStats(<<call.name, call.version>>), call.stats)

\* C3: get_buildstats for a key never passed to add_easyconfig returns the
\* empty list and raises nothing, once the constructor has returned.
C3_NeverRecordedIsEmpty ==
    /\ phase = "ready" => \A key \in Keys \ added : Returns(GetStats(key), <<>>)
    /\ (call.op = "get_buildstats" /\ <<call.name, call.version>> \notin added)
          => (call.exc = NoExc /\ call.ret = RetList(<<>>))

C3_Witness ==
    /\ call.op = "get_buildstats"
    /\ <<call.name, call.version>> \notin added
    /\ added # {}
    /\ RecordDir(Bundle, call.name) \in dirs
    /\ call.exc = NoExc /\ call.ret = RetList(<<>>)

InTrace(c, e) == e \in {c.trace[i] : i \in 1..Len(c.trace)}

\* C4 as stated: after GitRepository.cleanup returns, the temporary
\* directory that setup_repo allocated no longer exists.
C4_CleanupRemovesSetupTmp ==
    (h.cls = "GitRepository" /\ call.op = "cleanup" /\ call.exc = NoExc)
        => setupTmp \notin dirs

SetupRan(c) == Len(c.trace) > 0 /\ c.trace[1] = "setup_repo"

SetupRaised(c) == SetupRan(c) /\ c.exc # NoExc /\ ~InTrace(c, "create_working_copy")

\* C5 as stated: with the client package present, setup_repo never fails,
\* neither the first time (in the constructor) nor called again, and called
\* again it leaves the handle's repo as it was.
C5_SetupIdempotent ==
    [][(lib /\ SetupRan(call') /\ call' # call)
          => (~SetupRaised(call') /\ (phase = "ready" => h'.repo = h.repo))]_vars

CleanupStep == call'.op = "cleanup" /\ nCalls' = nCalls + 1

AddStep == call'.op = "add_easyconfig" /\ nCalls' = nCalls + 1

\* C6 as stated: no operation on the handle deletes a record that exists.
C6_RecordsNeverDeleted == [][DOMAIN files \subseteq DOMAIN files']_vars

\* C6 amended: only the cleanup of a VCS backend deletes records: when it
\* returns, every record of the working copy is gone with it, committed and
\* pushed or not; no other operation deletes a record, and none but
\* add_easyconfig changes one.
C6_OnlyVcsCleanupDeletes ==
    [][/\ (h.cls = "FileRepository" \/ ~CleanupStep)
            => (DOMAIN files \subseteq DOMAIN files')
       /\ (~AddStep /\ (h.cls = "FileRepository" \/ ~CleanupStep))
            => (files' = files)
       /\ (h.cls # "FileRepository" /\ CleanupStep /\ call'.exc = NoExc)
            => (\A p \in DOMAIN files' : ~IsPrefix(h.wc, p))]_vars

C6_Witness ==
    /\ h.cls = "FileRepository"
    /\ call.op = "cleanup" /\ call.exc = NoExc
    /\ DOMAIN files # {}

\* C7 as stated: for every backend, an add_easyconfig call that wrote the
\* record returns the path <wc>/<subdir>/<name>/<version>.eb.
C7_AddReturnsPath ==
    AddReturned => call.ret = RetPath(RecordPath(Bundle, call.name, call.version))

\* C7 amended: FileRepository.add_easyconfig returns the path
\* <wc>/<subdir>/<name>/<version>.eb of the record it wrote whenever it
\* returns; GitRepository and SvnRepository.add_easyconfig write the record
\* at that path and return None.
C7_OnlyFileBackendReturnsPath ==
    AddReturned =>
        LET dest == Join(Join(Join(h.wc, h.subdir), <<call.name>>), <<call.version \o ".eb">>)
        IN  /\ dest \in DOMAIN files
            /\ files[dest][Len(files[dest])] = StatsBlock(call.stats, call.previous)
            /\ h.cls = "FileRepository" => call.ret = RetPath(dest)
            /\ h.cls # "FileRepository" => call.ret = RetNone

C7_Witness ==
    /\ AddReturned
    /\ h.cls = "FileRepository"
    /\ call.ret.kind = "path"
    /\ call.ret.path \in DOMAIN files
    /\ call.ret.path = Join(Join(Join(h.wc, h.subdir), <<call.name>>), <<call.version \o ".eb">>)

\* C8 as stated: a failing clone and/or pull never aborts the construction
\* of a GitRepository, and the working-copy path is a usable directory.
C8_AcquireNeverAborts ==
    (h.cls = "GitRepository" /\ call.op = "__init__" /\ InTrace(call, "clone")
        /\ ~InTrace(call, "log.error"))
        => (call.exc = NoExc /\ phase = "ready" /\ h.wc \in dirs)

\* C9 as stated: GitRepository.commit never raises because of a failing
\* status, commit or push, and always attempts the push.
C9_CommitNeverRaises ==
    (h.cls = "GitRepository" /\ call.op = "commit")
        => (call.exc = NoExc /\ InTrace(call, "push"))

\* C10 as stated: SvnRepository.commit returns normally when the checkin
\* fails.
C10_CheckinFailureNonFatal ==
    (h.cls = "SvnRepository" /\ call.op = "commit") => call.exc = NoExc

\* C11: in SvnRepository.create_working_copy the checkout is made if and
\* only if the update returned a first result with revision -1; it is made
\* after the update, and when it succeeds the working copy directory
\* exists, holds the checked-out administrative area and is under version
\* control; after an update to a real revision no checkout is made.
C11_CheckoutIffSentinel ==
    (h.cls = "SvnRepository" /\ call.op = "__init__" /\ InTrace(call, "create_working_copy"))
        => /\ InTrace(call, "checkout") <=> InTrace(call, UpdatedTo(<<[number |-> Sentinel]>>))
           /\ InTrace(call, "checkout") =>
                 \E i, j \in 1..Len(call.trace) :
                     i < j /\ call.trace[i] = "update" /\ call.trace[j] = "checkout"
           /\ (InTrace(call, "checkout") /\ call.exc = NoExc) =>
                 (h.wc \in dirs /\ Join(h.wc, <<".svn">>) \in dirs /\ h.wc \in tracked)
           /\ InTrace(call, UpdatedTo(<<[number |-> 7]>>)) =>
                 (~InTrace(call, "checkout") /\ call.exc = NoExc)

C11_Witness ==
    /\ h.cls = "SvnRepository" /\ call.op = "__init__" /\ phase = "ready"
    /\ InTrace(call, UpdatedTo(<<[number |-> Sentinel]>>))
    /\ InTrace(call, "checkout")
    /\ Join(h.wc, <<".svn">>) \in dirs

VcsOps == {"clone", "pull", "add", "status", "commit", "push", "info2", "update",
           "checkout", "checkin"}

\* C12 as stated: once cleanup has been called on a handle, no later
\* add_easyconfig, commit or get_buildstats call on it is accepted (none
\* returns normally), and none of them creates or changes a record or
\* makes a call to the VCS client.
C12_CleanedUpIsTerminal ==
    [][(cleaned /\ nCalls' = nCalls + 1
          /\ call'.op \in {"add_easyconfig", "commit", "get_buildstats"})
        => (/\ call'.exc # NoExc
            /\ files' = files
            /\ \A e \in VcsOps : ~InTrace(call', e))]_vars

\* C13 as stated: whatever add_easyconfig calls were made, every record
\* document that holds a buildstats.append(...) statement holds, before it,
\* a definition of the buildstats list.
C13_RecordsStayParseable ==
    \A p \in DOMAIN files :
        \A i \in 1..Len(files[p]) :
            files[p][i].kind = "append"
                => \E j \in 1..(i - 1) : files[p][j].kind = "assign"

IsComplete(doc) ==
    /\ Len(doc) >= 2
    /\ doc[1] = Header
    /\ doc[Len(doc)].kind \in {"assign", "append"}

\* C14 as stated: when add_easyconfig fails with an IOError, the failure is
\* reported and the record of the key is either what it was before the
\* call or a complete new document, and the records of the other keys are
\* what they were.
C14_IoFailureLeavesNoPartialRecord ==
    [][(AddStep /\ InTrace(call', "log.exception") /\ ~InTrace(call', "add"))
        => /\ call'.exc = "EasyBuildError"
           /\ \A p \in DOMAIN files' :
                 \/ p \in DOMAIN files /\ files'[p] = files[p]
                 \/ p = call'.dest /\ IsComplete(files'[p])
           /\ DOMAIN files \subseteq DOMAIN files']_vars

Count(c, e) == Cardinality({i \in 1..Len(c.trace) : c.trace[i] = e})

Index(c, e) == CHOOSE i \in 1..Len(c.trace) : c.trace[i] = e

\* C15: a constructor call runs setup_repo once, first, and then
\* create_working_copy once; create_working_copy is not run only when
\* setup_repo raised, and it starts after setup_repo's own steps.  self.wc
\* (and self.client of GitRepository and SvnRepository) is None when
\* setup_repo starts: it still is when setup_repo raises before assigning it.
C15_SetupThenAcquireOnce ==
    call.op = "__init__" =>
        /\ Count(call, "setup_repo") = 1 /\ call.trace[1] = "setup_repo"
        /\ Count(call, "create_working_copy") <= 1
        /\ phase = "ready" => Count(call, "create_working_copy") = 1
        /\ Count(call, "create_working_copy") = 0
              => /\ call.exc # NoExc /\ phase = "aborted"
                 /\ InTrace(call, "mkdtemp") \/ h.wc = NoPath
                 /\ h.cls # "FileRepository" => h.client = NoClient
        /\ h.cls = "GitRepository" /\ InTrace(call, "create_working_copy")
              => /\ InTrace(call, "mkdtemp")
                 /\ Index(call, "mkdtemp") < Index(call, "create_working_copy")
        /\ h.repo # NoAttr /\ h.subdir \in Subdirs /\ h.wc # NoAttr

C15_Witness ==
    /\ call.op = "__init__" /\ phase = "ready" /\ h.cls = "GitRepository"
    /\ Len(call.trace) >= 3
    /\ call.trace[1] = "setup_repo"
    /\ call.trace[2] = "mkdtemp"
    /\ call.trace[3] = "create_working_copy"
    /\ h.client.kind = "git"

FirstFatal(c) ==
    CHOOSE i \in 1..Len(c.trace) :
        /\ c.trace[i] \in {"log.error", "log.exception"}
        /\ \A j \in 1..(i - 1) : c.trace[j] \notin {"log.error", "log.exception"}

\* setup_repo reported a fatal error: the first one reported in the
\* constructor comes before create_working_copy was entered
SetupFailed(c) ==
    /\ c.op = "__init__"
    /\ InTrace(c, "log.error") \/ InTrace(c, "log.exception")
    /\ \A j \in 1..FirstFatal(c) : c.trace[j] # "create_working_copy"

\* C16: when setup_repo reports a configuration error (GitRepository: the
\* git package is missing; SvnRepository: no client session, or the target
\* is not a valid url or cannot be checked), the constructor raises there:
\* create_working_copy is not run, no temporary directory is allocated and
\* no clone, pull, update or checkout is made.
C16_SetupErrorAbortsBeforeAcquire ==
    SetupFailed(call) =>
        /\ call.exc = "EasyBuildError" /\ phase = "aborted"
        /\ FirstFatal(call) = Len(call.trace)
        /\ ~InTrace(call, "create_working_copy")
        /\ ~InTrace(call, "mkdtemp") /\ tmpCount = 0 /\ dirs = {}
        /\ h.wc = NoPath
        /\ \A e \in {"clone", "pull", "info2", "update", "checkout"} : ~InTrace(call, e)

C16_Witness ==
    /\ h.cls = "SvnRepository" /\ SetupFailed(call)
    /\ InTrace(call, "is_url") /\ InTrace(call, "log.error")
    /\ phase = "aborted" /\ tmpCount = 0

C16_WitnessGit ==
    /\ h.cls = "GitRepository" /\ SetupFailed(call) /\ ~lib
    /\ phase = "aborted" /\ tmpCount = 0

Committed == call.op = "commit" /\ (InTrace(call, "commit") \/ InTrace(call, "checkin"))

\* C17 as stated: the message GitRepository.commit and
\* SvnRepository.commit hand to the client is
\* "EasyBuild-commit from <host> (time: <time>, user: <user>)\n<msg>", the
\* same for both classes.
C17_MessageShape ==
    Committed =>
        call.sent = "EasyBuild-commit from " \o call.host \o " (time: " \o call.time
                        \o ", user: " \o call.user \o ")\n" \o call.msg

\* C17 amended: both classes build the text
\* "EasyBuild-commit from <host> (time: <time>, user: <user>) \n<msg>" (host,
\* time, user in this order, a space before the line break, then the
\* caller's text); SvnRepository.commit hands it to checkin as the message,
\* GitRepository.commit hands the client the one argument -am "<text>".
C17_MessageShapeAsBuilt ==
    Committed =>
        LET text == "EasyBuild-commit from " \o call.host \o " (time: " \o call.time
                        \o ", user: " \o call.user \o ") \n" \o call.msg
        IN  /\ h.cls = "SvnRepository" => call.sent = text
            /\ h.cls = "GitRepository" => call.sent = "-am \"" \o text \o "\""

C17_Witness ==
    /\ Committed /\ h.cls = "GitRepository" /\ call.exc = NoExc
    /\ call.host = "node2" /\ call.msg = "add gcc 4.8"
    /\ call.sent = "-am \"" \o completemsg("node2", call.time, call.user, "add gcc 4.8") \o "\""

SvnAddStep == AddStep /\ h.cls = "SvnRepository"

\* C18: SvnRepository.add_easyconfig calls client.add(dest) only when dest
\* is not under version control: never on a path that is tracked when the
\* call is made, so a later call for the same key makes no add as long as
\* the path stays tracked; a path that is not tracked is added once the
\* record is written and its status read.
C18_AddOnlyIfNotVersioned ==
    [][SvnAddStep =>
          /\ InTrace(call', "add") => call'.dest \notin tracked
          /\ Count(call', "add") <= 1
          /\ (Count(call', "status") = 2 /\ call'.dest \in tracked)
                => (call'.exc = NoExc /\ tracked' = tracked)
          /\ (Count(call', "status") = 2 /\ call'.dest \notin tracked)
                => InTrace(call', "add")]_vars

C18_Witness ==
    /\ h.cls = "SvnRepository" /\ AddReturned /\ nAdds = 2
    /\ InTrace(call, "status") /\ ~InTrace(call, "add")
    /\ call.dest \in tracked

LogEvents == {"log.warning", "log.error", "log.exception"}

\* the call e was made and a report follows it at once: the call failed
Reported(c, e) ==
    \E i \in 1..(Len(c.trace) - 1) : c.trace[i] = e /\ c.trace[i + 1] \in LogEvents

\* C19: in SvnRepository.create_working_copy a failing info2 is fatal and
\* neither update nor checkout is made after it; an update that fails, or
\* that returns an empty list, ends the method with the reported fatal
\* error (EasyBuildError): res[0] is not read (no IndexError, no unbound
\* res) and no checkout is made.
C19_ProbeAndUpdateFailuresFatal ==
    (h.cls = "SvnRepository" /\ call.op = "__init__" /\ InTrace(call, "create_working_copy"))
        => /\ Reported(call, "info2")
                => /\ call.exc = "EasyBuildError" /\ phase = "aborted"
                   /\ ~InTrace(call, "update") /\ ~InTrace(call, "checkout")
           /\ Reported(call, "update")
                => /\ call.exc = "EasyBuildError" /\ phase = "aborted"
                   /\ ~InTrace(call, "checkout")
           /\ InTrace(call, UpdatedTo(<<>>))
                => /\ call.exc = "EasyBuildError" /\ phase = "aborted"
                   /\ call.trace[Len(call.trace)] = "log.error"
                   /\ ~InTrace(call, "checkout")
           /\ call.exc \notin {"IndexError", "UnboundLocalError"}

C19_Witness ==
    /\ h.cls = "SvnRepository" /\ call.op = "__init__" /\ phase = "aborted"
    /\ InTrace(call, "update") /\ InTrace(call, UpdatedTo(<<>>))
    /\ call.exc = "EasyBuildError"

C19_WitnessInfo ==
    /\ h.cls = "SvnRepository" /\ call.op = "__init__" /\ phase = "aborted"
    /\ Reported(call, "info2") /\ tmpCount = 1

GetStep == call'.op = "get_buildstats" /\ nCalls' = nCalls + 1

\* C20: add_easyconfig for a key changes no record but the one of that key
\* (every other document is afterwards what it was before, and no other
\* file appears); get_buildstats changes no record, no directory and none
\* of the handle's repo, subdir and wc.
C20_Frame ==
    [][/\ AddStep =>
            /\ \A p \in DOMAIN files \ {call'.dest} :
                   p \in DOMAIN files' /\ files'[p] = files[p]
            /\ DOMAIN files' \subseteq DOMAIN files \cup {call'.dest}
            /\ h'.repo = h.repo /\ h'.subdir = h.subdir /\ h'.wc = h.wc
       /\ GetStep =>
            /\ files' = files /\ dirs' = dirs /\ tracked' = tracked
            /\ h' = h]_vars

C20_Witness ==
    /\ AddReturned /\ nAdds = 2
    /\ call.dest \in DOMAIN files
    /\ \E p \in DOMAIN files : p # call.dest /\ IsComplete(files[p])

C20_WitnessGet ==
    /\ call.op = "get_buildstats" /\ call.exc = NoExc
    /\ call.dest \in DOMAIN files /\ call.ret.kind = "list" /\ Len(call.ret.val) = 2

====
